---- MODULE Spec2Model ----
(***************************************************************************)
(* Student record management console application.                          *)
(*                                                                         *)
(* The model follows Student_Record_Management_Console_App.py: a Student   *)
(* class, a StudentManager that keeps the list `students` and the JSON     *)
(* file `students.json`, and the menu loop of main().  Every input() call  *)
(* is a point where the program blocks, so every handler is split at its   *)
(* prompts: one action per prompt, taking the typed line as its input and  *)
(* running the code up to the next prompt.                                 *)
(*                                                                         *)
(* Text is a sequence of one-character strings.  Python values are tagged  *)
(* records (str / int / float); a float is held in tenths, so 8.5 is the   *)
(* float with n = 85.  The file holds JSON text tokens, not Python values: *)
(* json.dump and json.load are modelled as the conversions they are.       *)
(***************************************************************************)
EXTENDS Integers, Sequences, FiniteSets, TLC

VARIABLES
    pc,        \* where the process is: "start", a prompt, "stopped" or "crashed"
    students,  \* StudentManager.students
    file,      \* content of students.json
    cur,       \* locals of the handler in progress
    inp,       \* the line read by the last step (<<>> when it read none)
    out,       \* messages printed by the last step
    writable   \* whether students.json can be opened for writing (environment)

vars == <<pc, students, file, cur, inp, out, writable>>

\* Most records add_student may store before the model stops adding.
MaxStudents == 2

-----------------------------------------------------------------------------
(* Text helpers *)

Digits == <<"0", "1", "2", "3", "4", "5", "6", "7", "8", "9">>

IsDigit(c) == \E i \in 1..10 : Digits[i] = c

DigitVal(c) == (CHOOSE i \in 1..10 : Digits[i] = c) - 1

\* str.strip(): drop leading and trailing blanks.
RECURSIVE lstrip(_)
lstrip(s) == IF s # <<>> /\ Head(s) = " " THEN lstrip(Tail(s)) ELSE s

RECURSIVE rstrip(_)
rstrip(s) ==
    IF s # <<>> /\ s[Len(s)] = " " THEN rstrip(SubSeq(s, 1, Len(s) - 1)) ELSE s

strip(s) == rstrip(lstrip(s))

AllDigits(s) == s # <<>> /\ \A i \in 1..Len(s) : IsDigit(s[i])

RECURSIVE DigitsVal(_)
DigitsVal(s) ==
    IF s = <<>> THEN 0
    ELSE 10 * DigitsVal(SubSeq(s, 1, Len(s) - 1)) + DigitVal(s[Len(s)])

RECURSIVE NatToStr(_)
NatToStr(n) ==
    IF n < 10 THEN <<Digits[n + 1]>>
    ELSE NatToStr(n \div 10) \o <<Digits[(n % 10) + 1]>>

HasSign(s) == s # <<>> /\ Head(s) \in {"-", "+"}

Unsigned(s) == IF HasSign(s) THEN Tail(s) ELSE s

SignOf(s) == IF s # <<>> /\ Head(s) = "-" THEN -1 ELSE 1

DotAt(s) == IF \E i \in 1..Len(s) : s[i] = "."
            THEN CHOOSE i \in 1..Len(s) : s[i] = "."
            ELSE 0

\* int(text): blanks around, an optional sign, then digits; anything else
\* raises ValueError (ok = FALSE).
ParseInt(text) ==
    LET s == strip(text)
        u == Unsigned(s)
    IN  IF AllDigits(u)
        THEN [ok |-> TRUE, n |-> SignOf(s) * DigitsVal(u)]
        ELSE [ok |-> FALSE, n |-> 0]

\* float(text), in tenths: blanks around, an optional sign, digits, and an
\* optional point followed by at most one digit.
ParseFloat(text) ==
    LET s == strip(text)
        u == Unsigned(s)
        d == DotAt(u)
        whole == IF d = 0 THEN u ELSE SubSeq(u, 1, d - 1)
        frac == IF d = 0 THEN <<>> ELSE SubSeq(u, d + 1, Len(u))
    IN  IF AllDigits(whole) /\ (frac = <<>> \/ (Len(frac) = 1 /\ AllDigits(frac)))
        THEN [ok |-> TRUE,
              n |-> SignOf(s) * (10 * DigitsVal(whole) + DigitsVal(frac))]
        ELSE [ok |-> FALSE, n |-> 0]

-----------------------------------------------------------------------------
(* Python values and their JSON text *)

PyStr(s) == [t |-> "str", s |-> s, n |-> 0]

PyInt(n) == [t |-> "int", s |-> <<>>, n |-> n]

PyFloat(tenths) == [t |-> "float", s |-> <<>>, n |-> tenths]

Abs(n) == IF n < 0 THEN -n ELSE n

SignStr(n) == IF n < 0 THEN <<"-">> ELSE <<>>

\* A json.dumps that writes a float without its fractional part when that
\* part is zero (100.0 as 100).
JsonDumpsShortFloat(v) ==
    IF v.t = "str" THEN <<"\"">> \o v.s \o <<"\"">>
    ELSE IF v.t = "int" \/ Abs(v.n) % 10 = 0
    THEN SignStr(v.n) \o NatToStr(Abs(v.n) \div (IF v.t = "int" THEN 1 ELSE 10))
    ELSE SignStr(v.n) \o NatToStr(Abs(v.n) \div 10) \o <<".">>
         \o NatToStr(Abs(v.n) % 10)

\* json.dumps of one value: a quoted string, an integer literal, or the
\* repr of a float, which always carries a fractional part.
JsonDumps(v) ==
    IF v.t = "str" THEN <<"\"">> \o v.s \o <<"\"">>
    ELSE IF v.t = "int" THEN SignStr(v.n) \o NatToStr(Abs(v.n))
    ELSE SignStr(v.n) \o NatToStr(Abs(v.n) \div 10) \o <<".">>
         \o NatToStr(Abs(v.n) % 10)

\* json.loads of one token: a number with a fractional part is a float,
\* a number without one is an int.
JsonLoads(tok) ==
    IF Head(tok) = "\"" THEN PyStr(SubSeq(tok, 2, Len(tok) - 1))
    ELSE IF DotAt(tok) # 0 THEN PyFloat(ParseFloat(tok).n)
    ELSE PyInt(ParseInt(tok).n)

-----------------------------------------------------------------------------
(* class Student *)

Student(Student_id, Name, Branch, Year, Marks) ==
    [student_id |-> Student_id, name |-> Name, branch |-> Branch,
     year |-> Year, marks |-> Marks]

to_dict(self) ==
    [Student_id |-> self.student_id, Name |-> self.name,
     Branch |-> self.branch, Year |-> self.year, Marks |-> self.marks]

Keys == {"Student_id", "Name", "Branch", "Year", "Marks"}

\* data[...] raises KeyError when a key is missing; extra keys are ignored.
CanFromDict(data) == Keys \subseteq DOMAIN data

from_dict(data) ==
    Student(data["Student_id"], data["Name"], data["Branch"],
            data["Year"], data["Marks"])

\* json.dump / json.load of one object, key by key.
DumpObject(d) == [k \in DOMAIN d |-> JsonDumps(d[k])]

LoadObject(o) == [k \in DOMAIN o |-> JsonLoads(o[k])]

-----------------------------------------------------------------------------
(* The backing file *)

FileAbsent == [kind |-> "absent", elems |-> <<>>]

\* Text json.load rejects (JSONDecodeError), e.g. a truncated write.
FileInvalid == [kind |-> "invalid", elems |-> <<>>]

\* Valid JSON whose top level is not an array of objects.
FileNonArray == [kind |-> "nonarray", elems |-> <<>>]

FileArray(elems) == [kind |-> "array", elems |-> elems]

\* A _load_data that appends record by record and keeps what it had built
\* when an element raises.
RECURSIVE LoadablePrefix(_)
LoadablePrefix(elems) ==
    IF elems = <<>> \/ ~CanFromDict(Head(elems)) THEN <<>>
    ELSE <<from_dict(LoadObject(Head(elems)))>> \o LoadablePrefix(Tail(elems))

LoadDataKeepPrefix(f) ==
    IF f.kind = "absent" THEN [students |-> <<>>, msg |-> "no_file"]
    ELSE IF f.kind = "invalid" THEN [students |-> <<>>, msg |-> "decode_error"]
    ELSE IF f.kind = "nonarray" THEN [students |-> <<>>, msg |-> "load_error"]
    ELSE [students |-> LoadablePrefix(f.elems),
          msg |-> IF \A i \in 1..Len(f.elems) : CanFromDict(f.elems[i])
                  THEN "loaded" ELSE "load_error"]

\* StudentManager._load_data, called from __init__ with students = [].
\* The list comprehension builds the whole list before it is assigned, so
\* an element that raises leaves nothing behind.
_load_data(f) ==
    IF f.kind = "absent" THEN [students |-> <<>>, msg |-> "no_file"]
    ELSE IF f.kind = "invalid" THEN [students |-> <<>>, msg |-> "decode_error"]
    ELSE IF f.kind = "nonarray" THEN [students |-> <<>>, msg |-> "load_error"]
    ELSE IF \A i \in 1..Len(f.elems) : CanFromDict(f.elems[i])
    THEN [students |-> [i \in 1..Len(f.elems) |->
                            from_dict(LoadObject(f.elems[i]))],
          msg |-> "loaded"]
    ELSE [students |-> <<>>, msg |-> "load_error"]

SaveOutcomes == {"ok", "open_failed", "write_failed"}

\* A _save_data that opens the file with 'a': the array is written after
\* whatever the file already held.
SaveDataAppendMode(f, sts, outcome) ==
    IF outcome = "ok"
    THEN [file |-> IF f.kind = "absent"
                   THEN [kind |-> "array",
                         elems |-> [i \in 1..Len(sts) |-> DumpObject(to_dict(sts[i]))]]
                   ELSE [kind |-> "invalid", elems |-> <<>>],
          msg |-> "saved"]
    ELSE IF outcome = "open_failed" THEN [file |-> f, msg |-> "save_error"]
    ELSE [file |-> [kind |-> "invalid", elems |-> <<>>], msg |-> "save_error"]

\* StudentManager._save_data: open(file_name, 'w') then json.dump.  When
\* open() raises the file is untouched; when the write raises after the
\* file was truncated, what is left is not valid JSON.
_save_data(f, sts, outcome) ==
    IF outcome = "ok"
    THEN [file |-> FileArray([i \in 1..Len(sts) |-> DumpObject(to_dict(sts[i]))]),
          msg |-> "saved"]
    ELSE IF outcome = "open_failed" THEN [file |-> f, msg |-> "save_error"]
    ELSE [file |-> FileInvalid, msg |-> "save_error"]

\* A _find_student that keeps scanning and returns the last match.
FindLastStudent(sts, student_id) ==
    IF \E i \in 1..Len(sts) : sts[i].student_id = student_id
    THEN CHOOSE i \in 1..Len(sts) :
            /\ sts[i].student_id = student_id
            /\ \A j \in (i + 1)..Len(sts) : sts[j].student_id # student_id
    ELSE 0

\* StudentManager._find_student: index of the first record with that id,
\* 0 for None.
_find_student(sts, student_id) ==
    IF \E i \in 1..Len(sts) : sts[i].student_id = student_id
    THEN CHOOSE i \in 1..Len(sts) :
            /\ sts[i].student_id = student_id
            /\ \A j \in 1..(i - 1) : sts[j].student_id # student_id
    ELSE 0

\* [s for s in self.students if s.student_id != student_id]
RECURSIVE WithoutId(_, _)
WithoutId(sts, student_id) ==
    IF sts = <<>> THEN <<>>
    ELSE IF Head(sts).student_id # student_id
         THEN <<Head(sts)>> \o WithoutId(Tail(sts), student_id)
         ELSE WithoutId(Tail(sts), student_id)

\* A year check that refuses only 0.
ValidYearNonZero(year) == year # 0

\* year <= 0 is refused (add_student and update_student).
ValidYear(year) == ~(year <= 0)

\* A marks check without the upper bound.
ValidMarksNoUpperBound(marks) == 0 <= marks

\* not (0 <= marks <= 100) is refused; marks are in tenths here.
ValidMarks(marks) == 0 <= marks /\ marks <= 100 * 10

\* len(x) raises TypeError for a number.
HasLen(v) == v.t = "str"

\* view_students measures len() of id, name and branch of every record.
ViewRaises(sts) ==
    \E i \in 1..Len(sts) :
        ~(HasLen(sts[i].student_id) /\ HasLen(sts[i].name)
          /\ HasLen(sts[i].branch))

-----------------------------------------------------------------------------
(* Inputs: the lines a user may type at each prompt, and the files the     *)
(* program may find at startup.                                            *)

MenuLines == {<<"1">>, <<" ", "2">>, <<"3">>, <<"4">>, <<"5", " ">>,
              <<"9">>, <<>>}

IdLines == {<<>>, <<" ">>, <<"a">>, <<" ", "a", " ">>, <<"b">>}

\* Lines typed at the prompts of add_student.
AddNameLines == {<<"x">>, <<"y", " ">>}

AddBranchLines == {<<"c">>, <<" ", "c">>}

\* Lines typed at the prompts of update_student; a blank line keeps the
\* current value.
UpdNameLines == {<<>>, <<" ">>, <<"x">>, <<"y", " ">>}

UpdBranchLines == {<<>>, <<"c">>}

\* Lines typed at the year and marks prompts of both handlers.
YearLines == {<<>>, <<" ">>, <<"1">>, <<" ", "2">>, <<"0">>, <<"-", "1">>,
              <<"x">>, <<"2", ".", "0">>}

MarksLines == {<<>>, <<"0">>, <<"1", "0", "0">>, <<"1", "0", "0", ".", "1">>,
               <<"-", "0", ".", "5">>, <<"x">>}

FileObject(id, name, marks) ==
    [Student_id |-> id, Name |-> name, Branch |-> <<"\"", "c", "\"">>,
     Year |-> <<"1">>, Marks |-> marks]

InitFiles ==
    { FileAbsent, FileInvalid, FileNonArray, FileArray(<<>>),
      \* one record, marks written as an integer
      FileArray(<<FileObject(<<"\"", "a", "\"">>, <<"\"", "x", "\"">>, <<"5">>)>>),
      \* two records with the same id
      FileArray(<<FileObject(<<"\"", "a", "\"">>, <<"\"", "x", "\"">>, <<"8", ".", "5">>),
                  FileObject(<<"\"", "a", "\"">>, <<"\"", "y", "\"">>, <<"0", ".", "0">>)>>),
      \* second object lacks "Marks"
      FileArray(<<FileObject(<<"\"", "a", "\"">>, <<"\"", "x", "\"">>, <<"8", ".", "5">>),
                  [Student_id |-> <<"\"", "b", "\"">>, Name |-> <<"\"", "y", "\"">>]>>),
      \* id written as a number
      FileArray(<<FileObject(<<"7">>, <<"\"", "x", "\"">>, <<"8", ".", "5">>)>>),
      \* an extra key
      FileArray(<<[Student_id |-> <<"\"", "b", "\"">>, Name |-> <<"\"", "y", "\"">>,
                   Branch |-> <<"\"", "\"">>, Year |-> <<"2">>,
                   Marks |-> <<"1", "0", "0", ".", "0">>, Note |-> <<"1">>]>>) }

-----------------------------------------------------------------------------
(* State machine *)

CurNone == [student_id |-> <<>>, name |-> <<>>, branch |-> <<>>,
            year |-> 0, idx |-> 0]

Init ==
    /\ pc = "start"
    /\ students = <<>>
    /\ file \in InitFiles
    /\ cur = CurNone
    /\ inp = <<>>
    /\ out = <<>>
    /\ writable \in BOOLEAN

\* main(): manager = StudentManager(), i.e. __init__ and _load_data.
LoadData ==
    /\ pc = "start"
    /\ students' = _load_data(file).students
    /\ out' = <<_load_data(file).msg>>
    /\ pc' = "menu"
    /\ inp' = <<>>
    /\ UNCHANGED <<file, cur, writable>>

\* A save that puts the previous list back when the write fails.
StoreAndSaveRollback(sts, done) ==
    \E outcome \in {"ok", "open_failed", "write_failed"} :
        /\ (outcome = "open_failed") = ~writable
        /\ students' = IF outcome = "ok" THEN sts ELSE students
        /\ file' = _save_data(file, sts, outcome).file
        /\ out' = <<_save_data(file, sts, outcome).msg, done>>
        /\ UNCHANGED writable

\* The end of a mutating handler: self.students holds sts and _save_data is
\* called.  The environment decides how the write goes: a file that cannot
\* be opened for writing fails in open(), one that can may still fail while
\* it is written.  _save_data catches the exception and only prints.
StoreAndSave(sts, done) ==
    \E outcome \in SaveOutcomes :
        /\ (outcome = "open_failed") = ~writable
        /\ students' = sts
        /\ file' = _save_data(file, sts, outcome).file
        /\ out' = <<_save_data(file, sts, outcome).msg, done>>
        /\ UNCHANGED writable

\* choice == '1'
ChooseAdd ==
    /\ pc = "menu"
    /\ Len(students) < MaxStudents
    /\ \E line \in MenuLines : inp' = line /\ strip(line) = <<"1">>
    /\ pc' = "add_id"
    /\ out' = <<>>
    /\ UNCHANGED <<students, file, cur, writable>>

\* choice == '2': view_students
ViewStudents ==
    /\ pc = "menu"
    /\ \E line \in MenuLines : inp' = line /\ strip(line) = <<"2">>
    /\ IF students = <<>> THEN pc' = "menu" /\ out' = <<"no_records">>
       ELSE IF ViewRaises(students) THEN pc' = "crashed" /\ out' = <<"TypeError">>
       ELSE pc' = "menu" /\ out' = <<"table">>
    /\ UNCHANGED <<students, file, cur, writable>>

\* choice == '3'
ChooseUpdate ==
    /\ pc = "menu"
    /\ \E line \in MenuLines : inp' = line /\ strip(line) = <<"3">>
    /\ pc' = "upd_id"
    /\ out' = <<>>
    /\ UNCHANGED <<students, file, cur, writable>>

\* choice == '4'
ChooseDelete ==
    /\ pc = "menu"
    /\ \E line \in MenuLines : inp' = line /\ strip(line) = <<"4">>
    /\ pc' = "del_id"
    /\ out' = <<>>
    /\ UNCHANGED <<students, file, cur, writable>>

\* choice == '5'
Exit ==
    /\ pc = "menu"
    /\ \E line \in MenuLines : inp' = line /\ strip(line) = <<"5">>
    /\ pc' = "stopped"
    /\ out' = <<"goodbye">>
    /\ UNCHANGED <<students, file, cur, writable>>

\* any other choice
InvalidChoice ==
    /\ pc = "menu"
    /\ \E line \in MenuLines :
          /\ inp' = line
          /\ strip(line) \notin {<<"1">>, <<"2">>, <<"3">>, <<"4">>, <<"5">>}
    /\ pc' = "menu"
    /\ out' = <<"invalid_choice">>
    /\ UNCHANGED <<students, file, cur, writable>>

\* add_student, "Enter Student ID:" (lines 107-115)
AddId ==
    /\ pc = "add_id"
    /\ \E line \in IdLines :
          /\ inp' = line
          /\ LET student_id == strip(line) IN
             IF student_id = <<>>
             THEN /\ out' = <<"id_empty">>
                  /\ UNCHANGED <<pc, cur>>
             ELSE IF _find_student(students, PyStr(student_id)) # 0
             THEN /\ out' = <<"id_exists">>
                  /\ UNCHANGED <<pc, cur>>
             ELSE /\ cur' = [cur EXCEPT !.student_id = student_id]
                  /\ pc' = "add_name"
                  /\ out' = <<>>
    /\ UNCHANGED <<students, file, writable>>

\* add_student, "Enter Name:" (line 117)
AddName ==
    /\ pc = "add_name"
    /\ \E line \in AddNameLines :
          inp' = line /\ cur' = [cur EXCEPT !.name = strip(line)]
    /\ pc' = "add_branch"
    /\ out' = <<>>
    /\ UNCHANGED <<students, file, writable>>

\* add_student, "Enter Branch:" (line 118)
AddBranch ==
    /\ pc = "add_branch"
    /\ \E line \in AddBranchLines :
          inp' = line /\ cur' = [cur EXCEPT !.branch = strip(line)]
    /\ pc' = "add_year"
    /\ out' = <<>>
    /\ UNCHANGED <<students, file, writable>>

\* add_student, "Enter Year" (lines 120-128)
AddYear ==
    /\ pc = "add_year"
    /\ \E line \in YearLines :
          /\ inp' = line
          /\ LET year == ParseInt(line) IN
             IF ~year.ok
             THEN /\ out' = <<"year_invalid">>
                  /\ UNCHANGED <<pc, cur>>
             ELSE IF ~ValidYear(year.n)
             THEN /\ out' = <<"year_not_positive">>
                  /\ UNCHANGED <<pc, cur>>
             ELSE /\ cur' = [cur EXCEPT !.year = year.n]
                  /\ pc' = "add_marks"
                  /\ out' = <<>>
    /\ UNCHANGED <<students, file, writable>>

\* add_student, "Enter Marks" and the rest of the handler (lines 130-143)
AddMarks ==
    /\ pc = "add_marks"
    /\ \E line \in MarksLines :
          /\ inp' = line
          /\ LET marks == ParseFloat(line) IN
             IF ~marks.ok
             THEN /\ out' = <<"marks_invalid">>
                  /\ UNCHANGED <<pc, cur, students, file, writable>>
             ELSE IF ~ValidMarks(marks.n)
             THEN /\ out' = <<"marks_out_of_range">>
                  /\ UNCHANGED <<pc, cur, students, file, writable>>
             ELSE /\ StoreAndSave(
                        Append(students,
                               Student(PyStr(cur.student_id), PyStr(cur.name),
                                       PyStr(cur.branch), PyInt(cur.year),
                                       PyFloat(marks.n))),
                        "added")
                  /\ pc' = "menu"
                  /\ cur' = CurNone

\* update_student, "Enter Student ID to update:" (lines 201-206, 246-247)
UpdId ==
    /\ pc = "upd_id"
    /\ \E line \in IdLines :
          /\ inp' = line
          /\ LET student_id == strip(line)
                 idx == _find_student(students, PyStr(student_id))
             IN  IF idx # 0
                 THEN /\ cur' = [cur EXCEPT !.student_id = student_id, !.idx = idx]
                      /\ pc' = "upd_name"
                      /\ out' = <<"found">>
                 ELSE /\ pc' = "menu"
                      /\ out' = <<"not_found">>
                      /\ UNCHANGED cur
    /\ UNCHANGED <<students, file, writable>>

\* update_student, "Enter new Name" (lines 208-210)
UpdName ==
    /\ pc = "upd_name"
    /\ \E line \in UpdNameLines :
          /\ inp' = line
          /\ LET new_name == strip(line) IN
             students' = IF new_name # <<>>
                         THEN [students EXCEPT ![cur.idx].name = PyStr(new_name)]
                         ELSE students
    /\ pc' = "upd_branch"
    /\ out' = <<>>
    /\ UNCHANGED <<file, cur, writable>>

\* update_student, "Enter new Branch" (lines 212-214)
UpdBranch ==
    /\ pc = "upd_branch"
    /\ \E line \in UpdBranchLines :
          /\ inp' = line
          /\ LET new_branch == strip(line) IN
             students' = IF new_branch # <<>>
                         THEN [students EXCEPT ![cur.idx].branch = PyStr(new_branch)]
                         ELSE students
    /\ pc' = "upd_year"
    /\ out' = <<>>
    /\ UNCHANGED <<file, cur, writable>>

\* update_student, "Enter new Year" (lines 216-228)
UpdYear ==
    /\ pc = "upd_year"
    /\ \E line \in YearLines :
          /\ inp' = line
          /\ LET new_year_str == strip(line)
                 new_year == ParseInt(new_year_str)
             IN  IF new_year_str = <<>>
                 THEN /\ pc' = "upd_marks"
                      /\ out' = <<>>
                      /\ UNCHANGED students
                 ELSE IF ~new_year.ok
                 THEN /\ out' = <<"year_invalid">>
                      /\ UNCHANGED <<pc, students>>
                 ELSE IF ~ValidYear(new_year.n)
                 THEN /\ out' = <<"year_not_positive">>
                      /\ UNCHANGED <<pc, students>>
                 ELSE /\ students' = [students EXCEPT
                                         ![cur.idx].year = PyInt(new_year.n)]
                      /\ pc' = "upd_marks"
                      /\ out' = <<>>
    /\ UNCHANGED <<file, cur, writable>>

\* update_student, "Enter new Marks" and the rest of the handler
\* (lines 230-245)
UpdMarks ==
    /\ pc = "upd_marks"
    /\ \E line \in MarksLines :
          /\ inp' = line
          /\ LET new_marks_str == strip(line)
                 new_marks == ParseFloat(new_marks_str)
             IN  IF new_marks_str = <<>>
                 THEN /\ StoreAndSave(students, "updated")
                      /\ pc' = "menu"
                      /\ cur' = CurNone
                 ELSE IF ~new_marks.ok
                 THEN /\ out' = <<"marks_invalid">>
                      /\ UNCHANGED <<pc, cur, students, file, writable>>
                 ELSE IF ~ValidMarks(new_marks.n)
                 THEN /\ out' = <<"marks_out_of_range">>
                      /\ UNCHANGED <<pc, cur, students, file, writable>>
                 ELSE /\ StoreAndSave(
                            [students EXCEPT
                                ![cur.idx].marks = PyFloat(new_marks.n)],
                            "updated")
                      /\ pc' = "menu"
                      /\ cur' = CurNone

\* delete_student (lines 254-263)
DelId ==
    /\ pc = "del_id"
    /\ \E line \in IdLines :
          /\ inp' = line
          /\ LET student_id == strip(line)
                 initial_len == Len(students)
                 remaining == WithoutId(students, PyStr(student_id))
             IN  IF Len(remaining) < initial_len
                 THEN StoreAndSave(remaining, "deleted")
                 ELSE /\ students' = remaining
                      /\ out' = <<"not_found">>
                      /\ UNCHANGED <<file, writable>>
    /\ pc' = "menu"
    /\ UNCHANGED cur

\* The program is run again on the file the last run left behind.
Restart ==
    /\ pc \in {"stopped", "crashed"}
    /\ pc' = "start"
    /\ students' = <<>>
    /\ cur' = CurNone
    /\ inp' = <<>>
    /\ out' = <<>>
    /\ UNCHANGED <<file, writable>>

Next ==
    \/ LoadData
    \/ ChooseAdd
    \/ ViewStudents
    \/ ChooseUpdate
    \/ ChooseDelete
    \/ Exit
    \/ InvalidChoice
    \/ AddId
    \/ AddName
    \/ AddBranch
    \/ AddYear
    \/ AddMarks
    \/ UpdId
    \/ UpdName
    \/ UpdBranch
    \/ UpdYear
    \/ UpdMarks
    \/ DelId
    \/ Restart

Spec == Init /\ [][Next]_vars

TypeOK ==
    /\ pc \in {"start", "menu", "add_id", "add_name", "add_branch", "add_year",
               "add_marks", "upd_id", "upd_name", "upd_branch", "upd_year",
               "upd_marks", "del_id", "stopped", "crashed"}
    /\ writable \in BOOLEAN

-----------------------------------------------------------------------------
(* Properties *)

\* The file is a JSON array whose i-th object decodes to the i-th record.
FileReflects(f, sts) ==
    /\ f.kind = "array"
    /\ Len(f.elems) = Len(sts)
    /\ \A i \in 1..Len(sts) :
          /\ DOMAIN f.elems[i] = Keys
          /\ JsonLoads(f.elems[i]["Student_id"]) = sts[i].student_id
          /\ JsonLoads(f.elems[i]["Name"]) = sts[i].name
          /\ JsonLoads(f.elems[i]["Branch"]) = sts[i].branch
          /\ JsonLoads(f.elems[i]["Year"]) = sts[i].year
          /\ JsonLoads(f.elems[i]["Marks"]) = sts[i].marks

HasId(sts, id) == \E i \in 1..Len(sts) : sts[i].student_id = PyStr(id)

\* sts with the element at position k taken out.
RemoveAt(sts, k) == SubSeq(sts, 1, k - 1) \o SubSeq(sts, k + 1, Len(sts))

Ended == pc \in {"stopped", "crashed"}

\* C1: once the store is loaded, no two records of the in-memory list have
\* the same id.
C1_UniqueIds ==
    pc # "start" =>
        \A i, j \in 1..Len(students) :
            i # j => students[i].student_id # students[j].student_id

\* C2: add refuses an id that is empty or already in the store, a year <= 0
\* and marks outside [0,100], and a refusal changes neither the list nor the
\* file; any other input is taken, and the handler ends by appending exactly
\* one record made of the values supplied and by calling the save, after
\* which (when the write succeeded) the file holds the list.  The id, name
\* and branch supplied are the typed lines without surrounding blanks.
C2_AddValidation ==
    [][/\ pc = "add_id" =>
            LET id == strip(inp') IN
            /\ students' = students /\ file' = file
            /\ (id = <<>> \/ HasId(students, id)) => pc' = "add_id"
            /\ ~(id = <<>> \/ HasId(students, id)) =>
                    pc' = "add_name" /\ cur'.student_id = id
       /\ pc = "add_name" =>
            /\ students' = students /\ file' = file
            /\ pc' = "add_branch" /\ cur'.name = strip(inp')
            /\ cur'.student_id = cur.student_id
       /\ pc = "add_branch" =>
            /\ students' = students /\ file' = file
            /\ pc' = "add_year" /\ cur'.branch = strip(inp')
            /\ cur'.student_id = cur.student_id /\ cur'.name = cur.name
       /\ pc = "add_year" =>
            LET year == ParseInt(inp') IN
            /\ students' = students /\ file' = file
            /\ (~year.ok \/ year.n <= 0) => pc' = "add_year"
            /\ (year.ok /\ year.n > 0) =>
                    /\ pc' = "add_marks" /\ cur'.year = year.n
                    /\ cur'.student_id = cur.student_id
                    /\ cur'.name = cur.name /\ cur'.branch = cur.branch
       /\ pc = "add_marks" =>
            LET marks == ParseFloat(inp') IN
            /\ (~marks.ok \/ marks.n < 0 \/ marks.n > 1000) =>
                    students' = students /\ file' = file /\ pc' = "add_marks"
            /\ (marks.ok /\ marks.n >= 0 /\ marks.n <= 1000) =>
                    /\ pc' = "menu"
                    /\ students' = students \o
                          <<[student_id |-> PyStr(cur.student_id),
                             name |-> PyStr(cur.name),
                             branch |-> PyStr(cur.branch),
                             year |-> PyInt(cur.year),
                             marks |-> PyFloat(marks.n)]>>
                    /\ out' \in {<<"saved", "added">>, <<"save_error", "added">>}
                    /\ out'[1] = "saved" => FileReflects(file', students')
      ]_vars

\* A second record was appended to the list and written to the file.
C2_Witness ==
    /\ pc = "menu"
    /\ out = <<"saved", "added">>
    /\ Len(students) = 2
    /\ students[1].student_id # students[2].student_id
    /\ FileReflects(file, students)

\* C3: deleting an id that is present removes exactly one record, the others
\* staying in order; deleting an absent id changes neither the list nor the
\* file and reports not-found.
C3_DeleteExactlyOne ==
    [][(pc = "del_id" /\ pc' = "menu") =>
            IF HasId(students, strip(inp'))
            THEN /\ Len(students') = Len(students) - 1
                 /\ \E k \in 1..Len(students) :
                       /\ students[k].student_id = PyStr(strip(inp'))
                       /\ students' = RemoveAt(students, k)
            ELSE /\ students' = students
                 /\ file' = file
                 /\ out' = <<"not_found">>
      ]_vars

\* C4: in an update, a blank line keeps the field's value, and a year <= 0
\* or marks outside [0,100] is never assigned; the refusal leaves the
\* record as it was (with the name and branch already given) and the
\* handler goes on, so the values accepted are in the record that is saved.
C4_UpdateFields ==
    [][/\ pc = "upd_name" =>
            /\ strip(inp') = <<>> => students' = students
            /\ strip(inp') # <<>> =>
                    students' = [students EXCEPT
                                    ![cur.idx].name = PyStr(strip(inp'))]
            /\ pc' = "upd_branch" /\ file' = file
       /\ pc = "upd_branch" =>
            /\ strip(inp') = <<>> => students' = students
            /\ strip(inp') # <<>> =>
                    students' = [students EXCEPT
                                    ![cur.idx].branch = PyStr(strip(inp'))]
            /\ pc' = "upd_year" /\ file' = file
       /\ pc = "upd_year" =>
            LET year == ParseInt(strip(inp')) IN
            /\ strip(inp') = <<>> => students' = students /\ pc' = "upd_marks"
            /\ (year.ok /\ year.n <= 0) =>
                    students' = students /\ pc' = "upd_year"
            /\ (year.ok /\ year.n > 0) =>
                    /\ students' = [students EXCEPT
                                       ![cur.idx].year = PyInt(year.n)]
                    /\ pc' = "upd_marks"
            /\ file' = file
       /\ pc = "upd_marks" =>
            LET marks == ParseFloat(strip(inp')) IN
            /\ strip(inp') = <<>> => students' = students /\ pc' = "menu"
            /\ (marks.ok /\ (marks.n < 0 \/ marks.n > 1000)) =>
                    students' = students /\ file' = file /\ pc' = "upd_marks"
            /\ (marks.ok /\ marks.n >= 0 /\ marks.n <= 1000) =>
                    /\ students' = [students EXCEPT
                                       ![cur.idx].marks = PyFloat(marks.n)]
                    /\ pc' = "menu"
            /\ (pc' = "menu" /\ out'[1] = "saved") =>
                    FileReflects(file', students')
      ]_vars

\* A year was just refused in an update whose new name is already in the
\* record: the name in memory is not the one the file still holds.
C4_Witness ==
    /\ pc = "upd_year"
    /\ out = <<"year_not_positive">>
    /\ file.kind = "array"
    /\ Len(file.elems) = Len(students)
    /\ JsonLoads(file.elems[cur.idx]["Name"]) # students[cur.idx].name
    /\ JsonLoads(file.elems[cur.idx]["Year"]) = students[cur.idx].year

\* C5: saving the list and loading the file that was written gives the same
\* list back: as many records, in the same order, with the same id, name,
\* branch, year and marks.
C5_RoundTrip ==
    /\ _load_data(_save_data(file, students, "ok").file).students = students
    /\ _load_data(_save_data(file, students, "ok").file).msg = "loaded"

\* The list was loaded from a file a save wrote: its second record is one
\* that only add_student creates.
C5_Witness ==
    /\ pc = "menu"
    /\ out = <<"loaded">>
    /\ Len(students) = 2
    /\ students[2].student_id = PyStr(<<"b">>)
    /\ students[2].marks.t = "float"
    /\ students[2].year = PyInt(2)

\* C6: back at the menu after an add, update or delete whose save succeeded,
\* the file holds exactly the list in memory; after the last record is
\* deleted it holds an empty array.
C6_FileMatchesAfterSave ==
    /\ (pc = "menu" /\ out # <<>> /\ out[1] = "saved") =>
            FileReflects(file, students)
    /\ (pc = "menu" /\ out # <<>> /\ out[Len(out)] \in {"added", "updated", "deleted"}) =>
            out[1] \in {"saved", "save_error"}

\* The last record was deleted and the file holds an empty array.
C6_Witness ==
    /\ pc = "menu"
    /\ out = <<"saved", "deleted">>
    /\ students = <<>>
    /\ file = [kind |-> "array", elems |-> <<>>]

\* C7: when the save of an add, update or delete fails, the error is
\* reported, the process is back at the menu, and the list in memory is
\* what the operation made of it.
C7_SaveFailureKeepsMemory ==
    [][(out' # <<>> /\ out'[1] = "save_error" /\ pc # "menu") =>
         /\ pc' = "menu"
         /\ pc = "add_marks" =>
               /\ Len(students') = Len(students) + 1
               /\ SubSeq(students', 1, Len(students)) = students
               /\ students'[Len(students')].student_id = PyStr(cur.student_id)
               /\ students'[Len(students')].marks = PyFloat(ParseFloat(inp').n)
         /\ pc = "upd_marks" =>
               students' =
                  IF strip(inp') = <<>> THEN students
                  ELSE [students EXCEPT
                           ![cur.idx].marks = PyFloat(ParseFloat(inp').n)]
         /\ pc = "del_id" =>
               /\ Len(students') < Len(students)
               /\ ~HasId(students', strip(inp'))
               /\ \A i \in 1..Len(students) :
                     students[i].student_id # PyStr(strip(inp')) =>
                        \E j \in 1..Len(students') : students'[j] = students[i]
      ]_vars

\* An add whose save failed left the new record in memory and not on file.
C7_Witness ==
    /\ pc = "menu"
    /\ out = <<"save_error", "added">>
    /\ Len(students) = 1
    /\ ~FileReflects(file, students)

\* C8: loading at startup always reaches the menu; an absent file gives an
\* empty list; a file that is not valid JSON, not an array, or that has an
\* element without a required key gives an empty list, never part of the
\* records; a well-formed array of records gives those records in order.
C8_LoadNeverCrashes ==
    [][pc = "start" =>
         /\ pc' = "menu"
         /\ file' = file
         /\ file.kind \in {"absent", "invalid", "nonarray"} => students' = <<>>
         /\ (file.kind = "array"
               /\ \E i \in 1..Len(file.elems) : ~(Keys \subseteq DOMAIN file.elems[i]))
            => students' = <<>>
         /\ (file.kind = "array"
               /\ \A i \in 1..Len(file.elems) : Keys \subseteq DOMAIN file.elems[i])
            => /\ Len(students') = Len(file.elems)
               /\ \A i \in 1..Len(file.elems) :
                     students'[i] =
                        [student_id |-> JsonLoads(file.elems[i]["Student_id"]),
                         name |-> JsonLoads(file.elems[i]["Name"]),
                         branch |-> JsonLoads(file.elems[i]["Branch"]),
                         year |-> JsonLoads(file.elems[i]["Year"]),
                         marks |-> JsonLoads(file.elems[i]["Marks"])]
      ]_vars

\* A file whose second element lacks a key was loaded as the empty list.
C8_Witness ==
    /\ pc = "menu"
    /\ out = <<"load_error">>
    /\ students = <<>>
    /\ file.kind = "array"
    /\ Len(file.elems) = 2
    /\ Keys \subseteq DOMAIN file.elems[1]

\* C9: the process ends only by choice 5 at the menu, and an invalid choice
\* changes neither the list nor the file and returns to the menu.
C9_OnlyExitStops ==
    [][/\ (~Ended /\ Ended') =>
            (pc = "menu" /\ strip(inp') = <<"5">> /\ pc' = "stopped")
       /\ (pc = "menu" /\ pc' # "start"
             /\ strip(inp') \notin {<<"1">>, <<"2">>, <<"3">>, <<"4">>, <<"5">>}) =>
            (pc' = "menu" /\ students' = students /\ file' = file)
      ]_vars

\* C10: an update keeps the length of the list and the id at every
\* position, and changes no record other than the first one with the given
\* id; for an absent id nothing changes, in memory or on file, and
\* not-found is reported.
C10_UpdateKeepsShape ==
    [][/\ pc = "upd_id" =>
            /\ students' = students /\ file' = file
            /\ ~HasId(students, strip(inp')) =>
                    pc' = "menu" /\ out' = <<"not_found">>
            /\ HasId(students, strip(inp')) =>
                    pc' = "upd_name" /\ cur'.student_id = strip(inp')
       /\ pc \in {"upd_name", "upd_branch", "upd_year", "upd_marks"} =>
            /\ Len(students') = Len(students)
            /\ \A i \in 1..Len(students) :
                  /\ students'[i].student_id = students[i].student_id
                  /\ (\/ students[i].student_id # PyStr(cur.student_id)
                      \/ \E j \in 1..(i - 1) :
                            students[j].student_id = PyStr(cur.student_id))
                     => students'[i] = students[i]
            /\ pc' \in {"upd_name", "upd_branch", "upd_year", "upd_marks"} =>
                    cur' = cur
      ]_vars

\* The first of two records with the same id was updated; the second still
\* has the marks it was loaded with.
C10_Witness ==
    /\ pc = "menu"
    /\ out = <<"saved", "updated">>
    /\ Len(students) = 2
    /\ students[1].student_id = students[2].student_id
    /\ students[1].marks = PyFloat(1000)
    /\ students[2].marks = PyFloat(0)

====
